---- MODULE Spec2Model ----
(***************************************************************************)
(* CrosswordCreator (crossword/generate.py): node consistency, the AC-3    *)
(* worklist and the backtracking search of solve(), as a state machine.    *)
(* Words are sequences of letters; Python's 0-based offsets are kept in    *)
(* the overlap pairs and shifted by one where a word is indexed.           *)
(***************************************************************************)
EXTENDS Naturals, Integers, Sequences, FiniteSets, TLC

VARIABLES crossword, domains, queue, ac3ret, assignment, stack, retval, result, pc, stubbed

vars == <<crossword, domains, queue, ac3ret, assignment, stack, retval, result, pc, stubbed>>

\* Largest vocabulary the model draws for one crossword.
MaxWords == 3

\* Python's None, for an overlap that does not exist.
None == <<>>

\* The words a vocabulary is drawn from: lengths 2 and 3 over three letters.
WordUniverse ==
    { <<"a","b">>, <<"b","a">>, <<"b","b">>,
      <<"a","b","a">>, <<"a","b","b">>, <<"b","a","b">>, <<"b","b","a">>, <<"a","a","c">> }

\* A word list holds at least one word.
Vocabularies == { ws \in SUBSET WordUniverse : ws # {} /\ Cardinality(ws) <= MaxWords }

Variable(i, j, direction, length) ==
    [i |-> i, j |-> j, direction |-> direction, length |-> length]

\* The slot sets of six small grids: one slot; two slots crossing at
\* offsets (1,1); an H of three slots; two separate slots of lengths 2 and 3;
\* a corner of a 2-slot and a 3-slot; a full grid of 2 rows and 3 columns,
\* where each across slot has three neighbors.
Structures ==
    { { Variable(0, 0, "across", 3) },
      { Variable(1, 0, "across", 3), Variable(0, 1, "down", 3) },
      { Variable(0, 0, "down", 3), Variable(0, 2, "down", 3), Variable(1, 0, "across", 3) },
      { Variable(0, 0, "across", 2), Variable(2, 0, "across", 3) },
      { Variable(0, 0, "across", 2), Variable(0, 0, "down", 3) },
      { Variable(0, 0, "across", 3), Variable(1, 0, "across", 3),
        Variable(0, 0, "down", 2), Variable(0, 1, "down", 2), Variable(0, 2, "down", 2) } }

\* Variable.cells: the k-th cell of the slot, k = 0 .. length-1.
Cells(v) ==
    [k \in 1..v.length |->
        <<v.i + (IF v.direction = "down" THEN k - 1 ELSE 0),
          v.j + (IF v.direction = "across" THEN k - 1 ELSE 0)>>]

\* Crossword.overlaps, computed once for the slots of all grids: for an
\* ordered pair of distinct slots None, or the pair of 0-based offsets of the
\* shared cell in the first and in the second slot.
OverlapTable ==
    [x \in UNION Structures, y \in UNION Structures |->
        LET common == { c \in { Cells(x)[k] : k \in 1..x.length } :
                            \E m \in 1..y.length : Cells(y)[m] = c }
        IN IF x = y \/ common = {} THEN None
           ELSE LET c == CHOOSE c \in common : TRUE
                    ix == CHOOSE k \in 1..x.length : Cells(x)[k] = c
                    iy == CHOOSE m \in 1..y.length : Cells(y)[m] = c
                IN <<ix - 1, iy - 1>>]

\* crossword.overlaps[x, y]
Overlaps(x, y) == OverlapTable[x, y]

\* Crossword.neighbors(var)
Neighbors(var) ==
    { v \in crossword.variables : v # var /\ Overlaps(v, var) # None }

\* The orders in which a Python set can be iterated.
Orderings(S) ==
    { f \in [1..Cardinality(S) -> S] : \A a, b \in 1..Cardinality(S) : a # b => f[a] # f[b] }

\* word[k] for a 0-based offset k
CharAt(word, k) == word[k + 1]

\* CrosswordCreator.__init__: every slot starts with a copy of the vocabulary.
InitCommon ==
    /\ crossword \in { [variables |-> vs, words |-> ws] : vs \in Structures, ws \in Vocabularies }
    /\ domains = [v \in crossword.variables |-> crossword.words]
    /\ queue = <<>>
    /\ ac3ret = "unset"
    /\ assignment = <<>>
    /\ stack = <<>>
    /\ retval = "unset"
    /\ result = "unset"
    /\ pc = "solve93"

Init == InitCommon /\ stubbed = FALSE

\* Mutant of enforce_node_consistency: the test is > instead of !=, so shorter
\* words stay.
NodeConsistentDomainsOnlyLonger ==
    [var \in crossword.variables |-> { element \in domains[var] : ~(Len(element) > var.length) }]

\* enforce_node_consistency: the domains after the two loops.
NodeConsistentDomains ==
    [var \in crossword.variables |-> { element \in domains[var] : Len(element) = var.length }]

EnforceNodeConsistency ==
    /\ pc = "solve93"
    /\ domains' = NodeConsistentDomains
    /\ pc' = "solve94"
    /\ UNCHANGED <<crossword, queue, ac3ret, assignment, stack, retval, result, stubbed>>

\* Mutant of revise: a word is kept only if every word of domain(y) matches
\* it (the inner loop stops at the first mismatch instead of the first match).
ReviseNeedsAllSupport(x, y) ==
    LET overlap == Overlaps(x, y)
    IN IF overlap = None THEN domains[x]
       ELSE { possible_word \in domains[x] :
                \A possible_y_word \in domains[y] :
                    CharAt(possible_word, overlap[1]) = CharAt(possible_y_word, overlap[2]) }

\* Mutant of revise: the surviving words are collected from the domain of y.
ReviseCollectsFromY(x, y) ==
    LET overlap == Overlaps(x, y)
    IN IF overlap = None THEN domains[x]
       ELSE { possible_y_word \in domains[y] :
                \E possible_word \in domains[x] :
                    CharAt(possible_word, overlap[1]) = CharAt(possible_y_word, overlap[2]) }

\* revise(x, y): the domain of x after the call; a revision was made exactly
\* when it differs from domains[x].
Revise(x, y) ==
    LET overlap == Overlaps(x, y)
    IN IF overlap = None THEN domains[x]
       ELSE { possible_word \in domains[x] :
                \E possible_y_word \in domains[y] :
                    CharAt(possible_word, overlap[1]) = CharAt(possible_y_word, overlap[2]) }

\* revise(x, y): the value it returns, the flag set at line 134.
Revised(x, y) ==
    /\ Overlaps(x, y) # None
    /\ \E possible_word \in domains[x] :
          ~ \E possible_y_word \in domains[y] :
                CharAt(possible_word, Overlaps(x, y)[1]) = CharAt(possible_y_word, Overlaps(x, y)[2])

\* Mutant of ac3: each pair of slots is put on the worklist in one direction
\* only.
InitialArcsOneDirection(order) ==
    LET n == Len(order)
        all == [k \in 1..(n * n) |-> <<order[((k - 1) \div n) + 1], order[((k - 1) % n) + 1]>>]
        Forward(var_par) ==
            \E a, b \in 1..n : a < b /\ order[a] = var_par[1] /\ order[b] = var_par[2]
    IN SelectSeq(all, Forward)

\* ac3, lines 148-151: the keys of crossword.overlaps, every ordered pair of
\* distinct slots, in the order the dictionary was filled (two nested loops
\* over the set of slots).
InitialArcs(order) ==
    LET n == Len(order)
        all == [k \in 1..(n * n) |-> <<order[((k - 1) \div n) + 1], order[((k - 1) % n) + 1]>>]
        Distinct(var_par) == var_par[1] # var_par[2]
    IN SelectSeq(all, Distinct)

AC3Begin ==
    /\ pc = "solve94"
    /\ \E order \in Orderings(crossword.variables) : queue' = InitialArcs(order)
    /\ pc' = "ac3_156"
    /\ UNCHANGED <<crossword, domains, ac3ret, assignment, stack, retval, result, stubbed>>

\* Mutant of ac3: lines 161-163 left out, no arc is put back on the worklist.
AC3StepNoRequeue ==
    /\ pc = "ac3_156"
    /\ queue # <<>>
    /\ LET x == Head(queue)[1]
           y == Head(queue)[2]
           revised == Revised(x, y)
       IN /\ domains' = [domains EXCEPT ![x] = Revise(x, y)]
          /\ queue' = Tail(queue)
          /\ IF revised /\ Revise(x, y) = {}
             THEN /\ ac3ret' = "False"
                  /\ pc' = "solve95"
             ELSE UNCHANGED <<ac3ret, pc>>
    /\ UNCHANGED <<crossword, assignment, stack, retval, result, stubbed>>

\* Mutant of ac3: the test of line 162 left out, the arc (y, x) is put back
\* as well.
AC3StepRequeuesAll ==
    /\ pc = "ac3_156"
    /\ queue # <<>>
    /\ LET x == Head(queue)[1]
           y == Head(queue)[2]
           revised == Revised(x, y)
       IN /\ domains' = [domains EXCEPT ![x] = Revise(x, y)]
          /\ IF revised /\ Revise(x, y) = {}
             THEN /\ ac3ret' = "False"
                  /\ pc' = "solve95"
                  /\ queue' = Tail(queue)
             ELSE /\ \E order \in Orderings(IF revised THEN Neighbors(x) ELSE {}) :
                        queue' = Tail(queue) \o [k \in 1..Len(order) |-> <<order[k], x>>]
                  /\ UNCHANGED <<ac3ret, pc>>
    /\ UNCHANGED <<crossword, assignment, stack, retval, result, stubbed>>

\* Mutant of ac3: lines 159-160 left out, an emptied domain does not end the
\* loop.
AC3StepNoShortCircuit ==
    /\ pc = "ac3_156"
    /\ queue # <<>>
    /\ LET x == Head(queue)[1]
           y == Head(queue)[2]
           revised == Revised(x, y)
       IN /\ domains' = [domains EXCEPT ![x] = Revise(x, y)]
          /\ \E order \in Orderings(IF revised THEN Neighbors(x) \ {y} ELSE {}) :
                queue' = Tail(queue) \o [k \in 1..Len(order) |-> <<order[k], x>>]
          /\ UNCHANGED <<ac3ret, pc>>
    /\ UNCHANGED <<crossword, assignment, stack, retval, result, stubbed>>

\* Mutant of ac3: the loop of lines 161-163 moved out of the if of line 158,
\* arcs are put back whether or not a revision was made.
AC3StepAlwaysRequeues ==
    /\ pc = "ac3_156"
    /\ queue # <<>>
    /\ LET x == Head(queue)[1]
           y == Head(queue)[2]
           revised == Revised(x, y)
       IN /\ domains' = [domains EXCEPT ![x] = Revise(x, y)]
          /\ IF revised /\ Revise(x, y) = {}
             THEN /\ ac3ret' = "False"
                  /\ pc' = "solve95"
                  /\ queue' = Tail(queue)
             ELSE /\ \E order \in Orderings(Neighbors(x) \ {y}) :
                        queue' = Tail(queue) \o [k \in 1..Len(order) |-> <<order[k], x>>]
                  /\ UNCHANGED <<ac3ret, pc>>
    /\ UNCHANGED <<crossword, assignment, stack, retval, result, stubbed>>

\* One turn of the while loop of ac3 (lines 156-163).
AC3Step ==
    /\ pc = "ac3_156"
    /\ queue # <<>>
    /\ LET x == Head(queue)[1]
           y == Head(queue)[2]
           revised == Revised(x, y)
       IN /\ domains' = [domains EXCEPT ![x] = Revise(x, y)]
          /\ IF revised /\ Revise(x, y) = {}
             THEN /\ ac3ret' = "False"
                  /\ pc' = "solve95"
                  /\ queue' = Tail(queue)
             ELSE /\ \E order \in Orderings(IF revised THEN Neighbors(x) \ {y} ELSE {}) :
                        queue' = Tail(queue) \o [k \in 1..Len(order) |-> <<order[k], x>>]
                  /\ UNCHANGED <<ac3ret, pc>>
    /\ UNCHANGED <<crossword, assignment, stack, retval, result, stubbed>>

\* ac3, line 164: the worklist is empty.
AC3Return ==
    /\ pc = "ac3_156"
    /\ queue = <<>>
    /\ ac3ret' = "True"
    /\ pc' = "solve95"
    /\ UNCHANGED <<crossword, domains, queue, assignment, stack, retval, result, stubbed>>

AssignmentComplete(a) == \A var \in crossword.variables : var \in DOMAIN a

\* Mutant of consistent: the test of line 187 left out, an entry is compared
\* with itself and counts as a duplicate.
\* Mutant of consistent: lines 188-189 left out, a word may be used twice.
ConsistentAllowsRepeats(a) ==
    \A var \in DOMAIN a :
        /\ Len(a[var]) = var.length
        /\ \A y \in DOMAIN a :
              (var # y /\ Overlaps(var, y) # None) =>
                  CharAt(a[var], Overlaps(var, y)[1]) = CharAt(a[y], Overlaps(var, y)[2])

ConsistentComparesWithSelf(a) ==
    \A var \in DOMAIN a :
        /\ Len(a[var]) = var.length
        /\ \A y \in DOMAIN a :
              /\ a[var] # a[y]
              /\ Overlaps(var, y) # None =>
                    CharAt(a[var], Overlaps(var, y)[1]) = CharAt(a[y], Overlaps(var, y)[2])

\* Mutant of consistent: lines 190-193 left out, overlaps are not compared.
ConsistentNoOverlapCheck(a) ==
    \A var \in DOMAIN a :
        /\ Len(a[var]) = var.length
        /\ \A y \in DOMAIN a : var # y => a[var] # a[y]

Consistent(a) ==
    \A var \in DOMAIN a :
        /\ Len(a[var]) = var.length
        /\ \A y \in DOMAIN a :
              var # y =>
                 /\ a[var] # a[y]
                 /\ Overlaps(var, y) # None =>
                       CharAt(a[var], Overlaps(var, y)[1]) = CharAt(a[y], Overlaps(var, y)[2])

\* order_domain_values, lines 205-216: the count stored for domain_value.
NumEliminated(var, a, domain_value) ==
    Cardinality(
        { p \in UNION { { <<other_var, v>> : v \in domains[other_var] } :
                          other_var \in { o \in crossword.variables :
                                            o \notin DOMAIN a /\ o # var /\ Overlaps(var, o) # None } } :
            CharAt(domain_value, Overlaps(var, p[1])[1]) # CharAt(p[2], Overlaps(var, p[1])[2]) })

\* Mutant of order_domain_values: line 220 sorts in descending order.
OrderDomainValuesDescending(var, a) ==
    LET domain_values == [domain_value \in domains[var] |-> NumEliminated(var, a, domain_value)]
    IN { f \in Orderings(domains[var]) :
           \A i, j \in 1..Len(f) : i < j => domain_values[f[i]] >= domain_values[f[j]] }

\* order_domain_values: the lists it can return. sorted() is stable over the
\* iteration order of the domain, a set, so values with equal counts come in
\* any order.
OrderDomainValues(var, a) ==
    LET domain_values == [domain_value \in domains[var] |-> NumEliminated(var, a, domain_value)]
    IN { f \in Orderings(domains[var]) :
           \A i, j \in 1..Len(f) : i < j => domain_values[f[i]] <= domain_values[f[j]] }

\* order_domain_values stubbed to return the domain in an arbitrary order.
StubbedOrder(var, a) == Orderings(domains[var])

\* Mutant of select_unassigned_variable: the comparison of line 236 reversed,
\* the largest domain is chosen.
SelectLargestDomain(a) ==
    LET unassigned == { var \in crossword.variables : var \notin DOMAIN a }
        current_best == { var \in unassigned :
                            \A o \in unassigned :
                                Cardinality(domains[var]) >= Cardinality(domains[o]) }
    IN { var \in current_best :
            \A o \in current_best :
                Cardinality(Neighbors(var)) >= Cardinality(Neighbors(o)) }

\* Mutant of select_unassigned_variable: line 253 without reverse=True.
SelectLowestDegree(a) ==
    LET unassigned == { var \in crossword.variables : var \notin DOMAIN a }
        current_best == { var \in unassigned :
                            \A o \in unassigned :
                                Cardinality(domains[var]) <= Cardinality(domains[o]) }
    IN { var \in current_best :
            \A o \in current_best :
                Cardinality(Neighbors(var)) <= Cardinality(Neighbors(o)) }

\* select_unassigned_variable: the slots it can return. Ties that remain
\* after the degree are broken by the iteration order of the set of slots.
SelectUnassignedVariable(a) ==
    LET unassigned == { var \in crossword.variables : var \notin DOMAIN a }
        current_best == { var \in unassigned :
                            \A o \in unassigned :
                                Cardinality(domains[var]) <= Cardinality(domains[o]) }
    IN { var \in current_best :
            \A o \in current_best :
                Cardinality(Neighbors(var)) >= Cardinality(Neighbors(o)) }

Top == stack[Len(stack)]

Pop == SubSeq(stack, 1, Len(stack) - 1)

Delete(a, var) == [v \in DOMAIN a \ {var} |-> a[v]]

\* solve, line 95: backtrack(dict()), whatever ac3 returned.
SolveCallBacktrack ==
    /\ pc = "solve95"
    /\ assignment' = <<>>
    /\ pc' = "bt_264"
    /\ UNCHANGED <<crossword, domains, queue, ac3ret, stack, retval, result, stubbed>>

\* backtrack, lines 264-267: entry of a call. A frame keeps the assignment the
\* call was given, the chosen slot and the candidates still to try (the
\* current one first).
BacktrackEnter ==
    /\ pc = "bt_264"
    /\ IF AssignmentComplete(assignment)
       THEN /\ stack' = Append(stack, [entry |-> assignment, var |-> None, values |-> <<>>])
            /\ retval' = "assignment"
            /\ pc' = "bt_ret"
       ELSE /\ \E var \in SelectUnassignedVariable(assignment) :
                \E values \in (IF stubbed THEN StubbedOrder(var, assignment)
                                          ELSE OrderDomainValues(var, assignment)) :
                    stack' = Append(stack, [entry |-> assignment, var |-> var, values |-> values])
            /\ retval' = "unset"
            /\ pc' = "bt_loop"
    /\ UNCHANGED <<crossword, domains, queue, ac3ret, assignment, result, stubbed>>

\* Mutant of backtrack: the tentative entry also narrows the domain of the
\* slot to the tried word.
BacktrackAssignNarrowsDomain ==
    /\ pc = "bt_loop"
    /\ Top.values # <<>>
    /\ assignment' = (Top.var :> Head(Top.values)) @@ assignment
    /\ domains' = [domains EXCEPT ![Top.var] = {Head(Top.values)}]
    /\ pc' = "bt_270"
    /\ UNCHANGED <<crossword, queue, ac3ret, stack, retval, result, stubbed>>

\* backtrack, line 269: the tentative entry.
BacktrackAssign ==
    /\ pc = "bt_loop"
    /\ Top.values # <<>>
    /\ assignment' = (Top.var :> Head(Top.values)) @@ assignment
    /\ pc' = "bt_270"
    /\ UNCHANGED <<crossword, domains, queue, ac3ret, stack, retval, result, stubbed>>

\* Mutant of backtrack: line 274 moved inside the if of line 270, so a
\* rejected entry is not removed.
BacktrackCheckNoUndo ==
    /\ pc = "bt_270"
    /\ IF Consistent(assignment)
       THEN /\ pc' = "bt_264"
            /\ UNCHANGED <<assignment, stack>>
       ELSE /\ stack' = [stack EXCEPT ![Len(stack)].values = Tail(@)]
            /\ pc' = "bt_loop"
            /\ UNCHANGED assignment
    /\ UNCHANGED <<crossword, domains, queue, ac3ret, retval, result, stubbed>>

\* backtrack, lines 270-274: recurse on a consistent assignment, undo an
\* inconsistent one.
BacktrackCheck ==
    /\ pc = "bt_270"
    /\ IF Consistent(assignment)
       THEN /\ pc' = "bt_264"
            /\ UNCHANGED <<assignment, stack>>
       ELSE /\ assignment' = Delete(assignment, Top.var)
            /\ stack' = [stack EXCEPT ![Len(stack)].values = Tail(@)]
            /\ pc' = "bt_loop"
    /\ UNCHANGED <<crossword, domains, queue, ac3ret, retval, result, stubbed>>

\* Mutant of backtrack: line 275 returns the assignment instead of None.
BacktrackExhaustedReturnsAssignment ==
    /\ pc = "bt_loop"
    /\ Top.values = <<>>
    /\ retval' = "assignment"
    /\ pc' = "bt_ret"
    /\ UNCHANGED <<crossword, domains, queue, ac3ret, assignment, stack, result, stubbed>>

\* backtrack, line 275: no candidate is left.
BacktrackExhausted ==
    /\ pc = "bt_loop"
    /\ Top.values = <<>>
    /\ retval' = "None"
    /\ pc' = "bt_ret"
    /\ UNCHANGED <<crossword, domains, queue, ac3ret, assignment, stack, result, stubbed>>

\* Mutant of backtrack: a failed recursion ends the loop, the remaining
\* candidates are not tried.
BacktrackResumeGivesUp ==
    /\ pc = "bt_ret"
    /\ Len(stack) >= 2
    /\ IF retval = "assignment"
       THEN /\ stack' = Pop
            /\ UNCHANGED <<assignment, retval, pc>>
       ELSE /\ assignment' = Delete(assignment, Pop[Len(Pop)].var)
            /\ stack' = [Pop EXCEPT ![Len(Pop)].values = <<>>]
            /\ retval' = "unset"
            /\ pc' = "bt_loop"
    /\ UNCHANGED <<crossword, domains, queue, ac3ret, result, stubbed>>

\* backtrack, lines 271-274: the recursive call has returned to its caller.
BacktrackResume ==
    /\ pc = "bt_ret"
    /\ Len(stack) >= 2
    /\ IF retval = "assignment"
       THEN /\ stack' = Pop
            /\ UNCHANGED <<assignment, retval, pc>>
       ELSE /\ assignment' = Delete(assignment, Pop[Len(Pop)].var)
            /\ stack' = [Pop EXCEPT ![Len(Pop)].values = Tail(@)]
            /\ retval' = "unset"
            /\ pc' = "bt_loop"
    /\ UNCHANGED <<crossword, domains, queue, ac3ret, result, stubbed>>

\* solve, line 95: the outermost backtrack has returned.
SolveReturn ==
    /\ pc = "bt_ret"
    /\ Len(stack) = 1
    /\ result' = retval
    /\ stack' = <<>>
    /\ pc' = "done"
    /\ UNCHANGED <<crossword, domains, queue, ac3ret, assignment, retval, stubbed>>

Next ==
    \/ EnforceNodeConsistency
    \/ AC3Begin
    \/ AC3Step
    \/ AC3Return
    \/ SolveCallBacktrack
    \/ BacktrackEnter
    \/ BacktrackAssign
    \/ BacktrackCheck
    \/ BacktrackExhausted
    \/ BacktrackResume
    \/ SolveReturn

Spec == Init /\ [][Next]_vars

\* solve() runs on one thread without waiting: as long as a step is possible,
\* one is taken.
SpecFair == Init /\ [][Next]_vars /\ WF_vars(Next)

\* solve() with order_domain_values replaced by a stub returning the domain
\* in an arbitrary order.
InitStub == InitCommon /\ stubbed = TRUE

SpecStub == InitStub /\ [][Next]_vars

\* The two-slot scenario: slots A and B of length 3 crossing at offsets
\* (1, 1), vocabulary CAT, DOG, BAT, TAN, TEN, BIT.
SlotA == Variable(1, 0, "across", 3)

SlotB == Variable(0, 1, "down", 3)

TwoSlotWords ==
    { <<"C","A","T">>, <<"D","O","G">>, <<"B","A","T">>,
      <<"T","A","N">>, <<"T","E","N">>, <<"B","I","T">> }

\* The scenario's vocabulary and its small parts.
TwoSlotVocabularies ==
    {TwoSlotWords} \cup { ws \in SUBSET TwoSlotWords : ws # {} /\ Cardinality(ws) <= MaxWords }

InitTwoSlot ==
    /\ crossword \in { [variables |-> {SlotA, SlotB}, words |-> ws] : ws \in TwoSlotVocabularies }
    /\ domains = [v \in crossword.variables |-> crossword.words]
    /\ queue = <<>>
    /\ ac3ret = "unset"
    /\ assignment = <<>>
    /\ stack = <<>>
    /\ retval = "unset"
    /\ result = "unset"
    /\ pc = "solve93"
    /\ stubbed = FALSE

SpecTwoSlot == InitTwoSlot /\ [][Next]_vars

(***************************************************************************)
(* Properties                                                              *)
(***************************************************************************)

\* A complete consistent assignment of the crossword: an entry for every
\* slot, every word of its slot's length, no word used twice, every
\* overlapping pair agreeing at its offsets.
IsSolution(a) ==
    /\ DOMAIN a = crossword.variables
    /\ \A x \in crossword.variables : Len(a[x]) = x.length
    /\ \A x, y \in crossword.variables : x # y => a[x] # a[y]
    /\ \A x, y \in crossword.variables :
          (x # y /\ Overlaps(x, y) # None) =>
              a[x][Overlaps(x, y)[1] + 1] = a[y][Overlaps(x, y)[2] + 1]

SolutionExists ==
    \E a \in [crossword.variables -> crossword.words] : IsSolution(a)

\* The words of the vocabulary that have the length of slot v.
Fitting(v) == { w \in crossword.words : Len(w) = v.length }

InBacktrack == pc \in {"bt_264", "bt_loop", "bt_270", "bt_ret"}

\* C1: an assignment returned by solve() has an entry for every slot, every
\* word has its slot's length, no two slots hold the same word and every
\* overlapping pair of slots agrees at its overlap offsets.
C1_Soundness ==
    (pc = "done" /\ result = "assignment") => IsSolution(assignment)

\* solve() has returned an assignment for a grid with crossing slots.
C1_Witness ==
    /\ pc = "done"
    /\ result = "assignment"
    /\ \E x, y \in crossword.variables : x # y /\ Overlaps(x, y) # None

\* C2: solve() returns None only when no complete consistent assignment
\* exists; whenever one exists, solve() returns an assignment.
C2_Completeness ==
    pc = "done" => (result = "None" => ~SolutionExists) /\ (SolutionExists => result = "assignment")

\* solve() has returned None after a search over non-empty domains.
C2_Witness ==
    /\ pc = "done"
    /\ result = "None"
    /\ Cardinality(crossword.variables) >= 2
    /\ \A v \in crossword.variables : domains[v] # {}

\* C3 as stated: once ac3 has returned False, backtrack is never invoked.
C3_BacktrackNeverInvoked ==
    ac3ret = "False" => (~InBacktrack /\ stack = <<>>)

\* C3, amended: once ac3 has returned False, solve() returns None; backtrack
\* is invoked once, on the empty assignment, makes no tentative entry and no
\* recursive call.
C3_FailureWithoutSearch ==
    ac3ret = "False" =>
        /\ assignment = <<>>
        /\ Len(stack) <= 1
        /\ pc \in {"solve95", "bt_264", "bt_loop", "bt_ret", "done"}
        /\ pc = "done" => result = "None"

\* solve() has returned after ac3 returned False while another slot still
\* had candidates.
C3_Witness ==
    /\ pc = "done"
    /\ ac3ret = "False"
    /\ \E v \in crossword.variables : domains[v] # {}

\* C4: after ac3() has returned True, every word of domain(x) has, for every
\* slot y overlapping x at (i, j), a word v in domain(y) with w[i] = v[j].
C4_ArcConsistent ==
    ac3ret = "True" =>
        \A x, y \in crossword.variables :
            (x # y /\ Overlaps(x, y) # None) =>
                \A w \in domains[x] :
                    \E v \in domains[y] : w[Overlaps(x, y)[1] + 1] = v[Overlaps(x, y)[2] + 1]

\* ac3 has returned True after revise removed words from a slot that keeps
\* some and overlaps another slot.
C4_Witness ==
    /\ pc = "solve95"
    /\ ac3ret = "True"
    /\ \E x, y \in crossword.variables :
          /\ x # y
          /\ Overlaps(x, y) # None
          /\ domains[x] # {}
          /\ domains[x] # Fitting(x)

\* C5: ac3 returns True exactly when no domain is empty at the moment it
\* returns, and False exactly when some domain is empty.
C5_ReturnValue ==
    pc = "solve95" => (ac3ret = "True" <=> \A v \in crossword.variables : domains[v] # {})

\* C6: when a call of backtrack returns None, the assignment holds exactly the
\* entries it held when the call began; between two candidates of a call it
\* does so too, whether the last entry was rejected or its recursion failed.
C6_UndoDiscipline ==
    /\ (pc = "bt_ret" /\ retval = "None") => assignment = Top.entry
    /\ pc = "bt_loop" => assignment = Top.entry

\* A recursive call that tried candidates returns None.
C6_Witness ==
    /\ pc = "bt_ret"
    /\ retval = "None"
    /\ Len(stack) >= 2
    /\ domains[Top.var] # {}

\* C7: after enforce_node_consistency the domain of every slot is exactly the
\* set of the words it held before (the vocabulary) that have the slot's length.
C7_NodeConsistency ==
    pc = "solve94" => \A s \in crossword.variables : domains[s] = Fitting(s)

\* enforce_node_consistency has removed some words of a slot and kept others.
C7_Witness ==
    /\ pc = "solve94"
    /\ \E s \in crossword.variables : domains[s] # {} /\ domains[s] # crossword.words

\* C8: a step of enforce_node_consistency, revise or ac3 never adds a word to
\* a domain.
C8_DomainsShrink ==
    [][\A v \in crossword.variables : domains'[v] \subseteq domains[v]]_vars

\* Inside ac3, revise has removed a word from a node-consistent domain.
C8_Witness ==
    /\ pc = "ac3_156"
    /\ \E v \in crossword.variables : domains[v] # Fitting(v)

\* C9: from the call of backtrack until solve() returns, no step changes a
\* domain.
C9_DomainsFrozenInSearch ==
    [][(pc = "solve95" \/ InBacktrack) => domains' = domains]_vars

\* The search has made a tentative entry and recursed on it.
C9_Witness ==
    /\ pc = "bt_270"
    /\ Len(stack) >= 2

\* C10: with order_domain_values stubbed to an arbitrary order, solve() returns
\* a complete consistent assignment whenever one exists and None exactly when
\* none exists, as with the real ordering.
C10_OrderIrrelevant ==
    (stubbed /\ pc = "done") =>
        /\ result = "None" <=> ~SolutionExists
        /\ result = "assignment" => IsSolution(assignment)

\* solve() is about to return an assignment found with the candidates of the
\* first slot not in least-constraining-value order.
C10_Witness ==
    /\ stubbed
    /\ pc = "bt_ret"
    /\ retval = "assignment"
    /\ Len(stack) = 1
    /\ \E i, j \in 1..Len(Top.values) :
          /\ i < j
          /\ NumEliminated(Top.var, Top.entry, Top.values[i])
                > NumEliminated(Top.var, Top.entry, Top.values[j])

\* C11: failure is one result value: when ac3 has returned False, solve()
\* returns None, the value it also returns when backtracking runs out of
\* candidates after ac3 returned True.
C11_OneFailureValue ==
    pc = "done" =>
        /\ result \in {"None", "assignment"}
        /\ ac3ret = "False" => result = "None"
        /\ (ac3ret = "True" /\ ~SolutionExists) => result = "None"

\* solve() has returned None after a revise inside ac3 removed the last
\* fitting word of a slot.
C11_Witness ==
    /\ pc = "done"
    /\ result = "None"
    /\ ac3ret = "False"
    /\ \E v \in crossword.variables : domains[v] = {} /\ Fitting(v) # {}

\* C12: if no vocabulary word has the length of some slot, node consistency
\* leaves that slot's domain empty and solve() returns None, whether or not
\* the slot overlaps another slot and whatever the other domains are.
C12_EmptyDomainScenario ==
    \A s \in crossword.variables :
        Fitting(s) = {} =>
            /\ pc # "solve93" => domains[s] = {}
            /\ pc = "done" => result = "None"

\* solve() has returned for a slot without fitting words that overlaps no
\* other slot, beside a slot that has candidates.
C12_Witness ==
    /\ pc = "done"
    /\ \E s, t \in crossword.variables :
          /\ Fitting(s) = {}
          /\ Neighbors(s) = {}
          /\ domains[t] # {}

\* C13: for a crossword of exactly one slot whose length some vocabulary word
\* has, solve() returns an assignment of the slot to a vocabulary word of
\* that length.
C13_SingleSlotScenario ==
    (pc = "done" /\ Cardinality(crossword.variables) = 1) =>
        \A s \in crossword.variables :
            Fitting(s) # {} =>
                /\ result = "assignment"
                /\ DOMAIN assignment = {s}
                /\ assignment[s] \in crossword.words
                /\ Len(assignment[s]) = s.length

\* solve() has returned for one slot and a vocabulary holding fitting words
\* and others.
C13_Witness ==
    /\ pc = "done"
    /\ Cardinality(crossword.variables) = 1
    /\ result = "assignment"
    /\ \E w \in crossword.words : \A s \in crossword.variables : Len(w) # s.length

\* C14: for slots A and B of length 3 crossing at offsets (1, 1) and the
\* vocabulary CAT, DOG, BAT, TAN, TEN, BIT, solve() returns an assignment of
\* both slots with different words that agree at the crossing, never failure.
C14_TwoSlotScenario ==
    (pc = "done" /\ crossword = [variables |-> {SlotA, SlotB}, words |-> TwoSlotWords]) =>
        /\ result = "assignment"
        /\ DOMAIN assignment = {SlotA, SlotB}
        /\ assignment[SlotA] \in TwoSlotWords
        /\ assignment[SlotB] \in TwoSlotWords
        /\ assignment[SlotA] # assignment[SlotB]
        /\ assignment[SlotA][2] = assignment[SlotB][2]

\* solve() has returned CAT for A and TAN for B.
C14_Witness ==
    /\ pc = "done"
    /\ result = "assignment"
    /\ assignment[SlotA] = <<"C","A","T">>
    /\ assignment[SlotB] = <<"T","A","N">>

\* The largest arc-consistent domains inside d: every unsupported word is
\* removed from every slot at once, until nothing changes.
RECURSIVE ArcClosure(_)
ArcClosure(d) ==
    LET pruned == [x \in DOMAIN d |->
                     { w \in d[x] :
                         \A y \in DOMAIN d :
                             (y # x /\ Overlaps(x, y) # None) =>
                                 \E v \in d[y] : w[Overlaps(x, y)[1] + 1] = v[Overlaps(x, y)[2] + 1] }]
    IN IF pruned = d THEN d ELSE ArcClosure(pruned)

\* The domains ac3 is called with in solve().
NodeConsistentStart == [v \in crossword.variables |-> Fitting(v)]

\* C15: the outcome of ac3 does not depend on the order of the worklist: it
\* returns True exactly when the arc closure of the starting domains empties
\* no domain that had words, and then every final domain is that of the
\* closure, whatever order the arcs were taken in.
C15_OrderIndependence ==
    pc = "solve95" =>
        /\ ac3ret = "True" <=>
              \A v \in crossword.variables :
                  ArcClosure(NodeConsistentStart)[v] = {} => NodeConsistentStart[v] = {}
        /\ ac3ret = "True" => domains = ArcClosure(NodeConsistentStart)

\* ac3 has returned True for three or more slots after pruning a domain that
\* keeps words.
C15_Witness ==
    /\ pc = "solve95"
    /\ ac3ret = "True"
    /\ Cardinality(crossword.variables) >= 3
    /\ \E v \in crossword.variables : domains[v] # {} /\ domains[v] # Fitting(v)

\* The words of domain(x) that no word of domain(y) matches at the overlap
\* of x and y.
Unsupported(x, y) ==
    { w \in domains[x] :
        \A v \in domains[y] : w[Overlaps(x, y)[1] + 1] # v[Overlaps(x, y)[2] + 1] }

\* C16: revise(x, y), called for the arc at the head of the worklist, removes
\* from domain(x) exactly the words without a match in domain(y), leaves every
\* other domain unchanged and returns True exactly when a word was removed;
\* for a pair without overlap it removes nothing and returns False.
C16_Revise ==
    [][(pc = "ac3_156" /\ queue # <<>>) =>
          LET x == Head(queue)[1]
              y == Head(queue)[2]
          IN /\ \A v \in crossword.variables \ {x} : domains'[v] = domains[v]
             /\ Revised(x, y) <=> domains'[x] # domains[x]
             /\ Overlaps(x, y) # None => domains'[x] = domains[x] \ Unsupported(x, y)
             /\ Overlaps(x, y) = None => (domains'[x] = domains[x] /\ ~Revised(x, y))]_vars

\* Inside ac3, a revise has removed some words of a slot and kept others, and
\* an arc of two slots without overlap waits on the worklist.
C16_Witness ==
    /\ pc = "ac3_156"
    /\ \E v \in crossword.variables : domains[v] # {} /\ domains[v] # Fitting(v)
    /\ \E k \in 1..Len(queue) : Overlaps(queue[k][1], queue[k][2]) = None

\* C17: when processing the arc (x, y) removes a word of domain(x) and leaves
\* it non-empty, the worklist gains the arc (n, x) once for every slot n
\* overlapping x other than y, and no other arc; when nothing is removed it
\* gains no arc.
C17_Requeue ==
    [][(pc = "ac3_156" /\ queue # <<>>) =>
          LET x == Head(queue)[1]
              y == Head(queue)[2]
              kept == Len(queue) - 1
              added == SubSeq(queue', kept + 1, Len(queue'))
              due == { <<n, x>> : n \in { n \in crossword.variables :
                                            n # x /\ n # y /\ Overlaps(n, x) # None } }
          IN /\ Len(queue') >= kept
             /\ SubSeq(queue', 1, kept) = Tail(queue)
             /\ (domains'[x] # domains[x] /\ domains'[x] # {}) =>
                   /\ { added[k] : k \in 1..Len(added) } = due
                   /\ Len(added) = Cardinality(due)
             /\ domains'[x] = domains[x] => added = <<>>]_vars

\* Two arcs towards the same pruned slot have just been put at the end of
\* the worklist.
C17_Witness ==
    /\ pc = "ac3_156"
    /\ Len(queue) >= 2
    /\ queue[Len(queue)][2] = queue[Len(queue) - 1][2]
    /\ queue[Len(queue)][1] # queue[Len(queue) - 1][1]
    /\ domains[queue[Len(queue)][2]] # {}
    /\ domains[queue[Len(queue)][2]] # Fitting(queue[Len(queue)][2])

\* C18: the revise call of ac3 that removes the last word of domain(x) makes
\* ac3 return False at once; from then on no arc is taken from the worklist
\* and no domain changes, even if arcs are left on the worklist.
C18_ShortCircuit ==
    [][/\ (pc = "ac3_156" /\ queue # <<>>
              /\ domains[Head(queue)[1]] # {} /\ domains'[Head(queue)[1]] = {}) =>
                 (ac3ret' = "False" /\ pc' = "solve95")
       /\ ac3ret = "False" => (queue' = queue /\ domains' = domains)]_vars

\* solve() has run to its end after ac3 returned False with arcs left on the
\* worklist.
C18_Witness ==
    /\ pc = "done"
    /\ ac3ret = "False"
    /\ queue # <<>>

\* C19: called without arcs, ac3 starts with a worklist that holds exactly
\* the ordered pairs of slots that have an overlap, each once and in both
\* orders, and no pair without an overlap.
C19_InitialWorklist ==
    [][pc = "solve94" =>
          LET arcs == { <<x, y>> \in crossword.variables \X crossword.variables :
                          x # y /\ Overlaps(x, y) # None }
          IN /\ { queue'[k] : k \in 1..Len(queue') } = arcs
             /\ Len(queue') = Cardinality(arcs)]_vars

\* C20: solve() terminates: ac3 returns after finitely many revise calls,
\* the worklist growing only by a step that removes a word, and backtrack
\* returns after finitely many steps; the depth of every call of backtrack is
\* the number of slots assigned on its entry and never exceeds the number of
\* slots.
C20_Termination ==
    /\ <>(pc = "done" /\ ac3ret # "unset")
    /\ [](/\ Len(stack) <= Cardinality(crossword.variables) + 1
          /\ \A k \in 1..Len(stack) : Cardinality(DOMAIN stack[k].entry) = k - 1)
    /\ [][(pc = "ac3_156" /\ queue # <<>> /\ Len(queue') >= Len(queue)) => domains' # domains]_vars

\* A call of backtrack at the depth of the number of slots, three or more,
\* is returning.
C20_Witness ==
    /\ pc = "bt_ret"
    /\ Cardinality(crossword.variables) >= 3
    /\ Len(stack) = Cardinality(crossword.variables) + 1

\* The slots not assigned in a.
Unassigned(a) == crossword.variables \ DOMAIN a

\* The number of slots that overlap slot v.
Degree(v) ==
    Cardinality({ o \in crossword.variables : o # v /\ Overlaps(v, o) # None })

\* C21: the slot select_unassigned_variable returns to a call of backtrack is
\* unassigned on entry, no unassigned slot has a smaller domain, and among
\* the unassigned slots with a domain of that size none has more overlapping
\* neighbours.
C21_SelectUnassignedVariable ==
    \A k \in 1..Len(stack) :
        stack[k].var # None =>
            LET a == stack[k].entry
                var == stack[k].var
            IN /\ var \in Unassigned(a)
               /\ \A o \in Unassigned(a) :
                     Cardinality(domains[var]) <= Cardinality(domains[o])
               /\ \A o \in Unassigned(a) :
                     Cardinality(domains[o]) = Cardinality(domains[var])
                         => Degree(o) <= Degree(var)

\* A call of backtrack chose its slot by the degree: another unassigned slot
\* has a domain of the same size and fewer neighbours, and a third has a
\* larger domain.
C21_Witness ==
    /\ pc = "bt_loop"
    /\ Top.var # None
    /\ \E o \in Unassigned(Top.entry) :
          /\ Cardinality(domains[o]) = Cardinality(domains[Top.var])
          /\ Degree(o) < Degree(Top.var)
    /\ \E o \in Unassigned(Top.entry) :
          Cardinality(domains[o]) > Cardinality(domains[Top.var])

\* The words of the domain of neighbour n that choosing word w for slot
\* var rules out: those whose letter at n's overlap offset differs from the
\* letter of w at var's overlap offset.
RuledOut(var, w, n) ==
    { v \in domains[n] :
        w[Overlaps(var, n)[1] + 1] # v[Overlaps(var, n)[2] + 1] }

RECURSIVE SumRuledOut(_, _, _)
SumRuledOut(var, w, ns) ==
    IF ns = {} THEN 0
    ELSE LET n == CHOOSE m \in ns : TRUE
         IN Cardinality(RuledOut(var, w, n)) + SumRuledOut(var, w, ns \ {n})

\* The elimination count of word w for slot var under assignment a: the sum
\* over the unassigned slots that overlap var.
EliminationCount(var, a, w) ==
    SumRuledOut(var, w, { n \in Unassigned(a) : n # var /\ Overlaps(var, n) # None })

\* C22: the list order_domain_values returns to a call of backtrack holds
\* every word of the slot's domain exactly once, in ascending order of the
\* elimination count; assigned neighbours and slots that do not overlap
\* contribute nothing to the count.
C22_OrderDomainValues ==
    [][(pc = "bt_264" /\ pc' = "bt_loop") =>
          LET var == stack'[Len(stack')].var
              values == stack'[Len(stack')].values
          IN /\ { values[i] : i \in 1..Len(values) } = domains[var]
             /\ Len(values) = Cardinality(domains[var])
             /\ \A i, j \in 1..Len(values) :
                   i < j => EliminationCount(var, assignment, values[i])
                               <= EliminationCount(var, assignment, values[j])]_vars

\* A call of backtrack has just received the ordered words of a slot that
\* has an assigned overlapping neighbour and an unassigned one; two of the
\* words have different elimination counts.
C22_Witness ==
    /\ pc = "bt_loop"
    /\ retval = "unset"
    /\ assignment = Top.entry
    /\ Top.var # None
    /\ Len(Top.values) = Cardinality(domains[Top.var])
    /\ \E n \in DOMAIN Top.entry : Overlaps(Top.var, n) # None
    /\ \E n \in Unassigned(Top.entry) : n # Top.var /\ Overlaps(Top.var, n) # None
    /\ \E i, j \in 1..Len(Top.values) :
          EliminationCount(Top.var, Top.entry, Top.values[i])
              < EliminationCount(Top.var, Top.entry, Top.values[j])

\* The three conditions on a partial assignment a, over its assigned slots
\* only: lengths, distinct words, agreement at the overlaps.
LengthsMatch(a) == \A x \in DOMAIN a : Len(a[x]) = x.length

WordsDistinct(a) == \A x, y \in DOMAIN a : x # y => a[x] # a[y]

OverlapsAgree(a) ==
    \A x, y \in DOMAIN a :
        (x # y /\ Overlaps(x, y) # None) =>
            a[x][Overlaps(x, y)[1] + 1] = a[y][Overlaps(x, y)[2] + 1]

Solutions ==
    IF Cardinality(crossword.words) < Cardinality(crossword.variables)
    THEN {}
    ELSE { a \in [crossword.variables -> crossword.words] : IsSolution(a) }

\* C24: enforce_node_consistency, revise and ac3 never remove from a slot's
\* domain a word the slot takes in some complete consistent assignment: in
\* every state, and so when backtrack starts, every solution has each of its
\* words in the domain of the word's slot.
C24_PruningPreservesSolutions ==
    \A a \in Solutions : \A v \in crossword.variables : a[v] \in domains[v]

\* backtrack starts on a grid with crossing slots that has a solution, after
\* ac3 removed from some domain a word of the slot's length.
C24_Witness ==
    /\ pc = "bt_264"
    /\ stack = <<>>
    /\ Solutions # {}
    /\ Cardinality(crossword.variables) >= 3
    /\ \E v \in crossword.variables :
          /\ domains[v] # Fitting(v)
          /\ \E w \in domains[v] : \E a \in Solutions : a[v] = w

====
